---------------------------- MODULE Spec2Model ----------------------------
(***************************************************************************)
(* Model of src/finance_tracker.py: the FinanceTracker class over          *)
(* st.session_state (transactions, budgets) and the "Recent Transactions"  *)
(* listing of main().                                                      *)
(*                                                                         *)
(* Amounts are whole currency units (Int) standing for Python floats.      *)
(* An amount argument is either a Python str, [type |-> "str", chars |->   *)
(* <<"4","0">>], or a Python float, [type |-> "float", val |-> 120].       *)
(* A date argument is a datetime.date, [year, month, day].                 *)
(* The variable last records the most recent call, its arguments and what  *)
(* it returned to the caller.                                              *)
(*                                                                         *)
(* The methods are modelled as a caller can invoke them: the arguments are *)
(* not limited to what the widgets of main() produce (number_input with    *)
(* min_value=0.0, selectbox over the category list), since the methods     *)
(* themselves place no such limit.                                         *)
(***************************************************************************)
EXTENDS Integers, Sequences, FiniteSets, TLC

VARIABLES transactions, budgets, last

vars == <<transactions, budgets, last>>

(***************************************************************************)
(* Bounds and input sets.                                                  *)
(***************************************************************************)
MaxLedger == 2

Str(s) == [type |-> "str", chars |-> s]

Num(n) == [type |-> "float", val |-> n]

Date(y, m, d) == [year |-> y, month |-> m, day |-> d]

DateInputs == {Date(2024, 3, 31), Date(2024, 4, 1), Date(2023, 3, 31)}

TxAmountInputs == {Str(<<"a", "b", "c">>), Str(<<"4", "0">>), Num(120)}

BudgetInputs ==
    {<<"Food", Num(200)>>, <<"Food", Str(<<"-", "5">>)>>,
     <<"Food", Str(<<"a", "b", "c">>)>>, <<"Housing", Num(200)>>,
     <<"Pets", Num(200)>>}

CategoryInputs == {"Food", "Pets"}

DescriptionInputs == {"Groceries"}

Periods == {<<2024, 3>>, <<2024, 4>>}

(***************************************************************************)
(* FinanceTracker.__init__: the fixed category list.                       *)
(***************************************************************************)
categories ==
    <<"Housing", "Transportation", "Food", "Utilities",
      "Healthcare", "Entertainment", "Shopping", "Other">>

CategorySet == {categories[i] : i \in 1..Len(categories)}

(***************************************************************************)
(* float(amount): a float is returned as it is; a str is parsed as an      *)
(* optional sign followed by one or more decimal digits, anything else     *)
(* raises ValueError ([ok |-> FALSE]).                                     *)
(***************************************************************************)
Digits == {"0", "1", "2", "3", "4", "5", "6", "7", "8", "9"}

DigitVal(ch) ==
    CASE ch = "0" -> 0 [] ch = "1" -> 1 [] ch = "2" -> 2 [] ch = "3" -> 3
      [] ch = "4" -> 4 [] ch = "5" -> 5 [] ch = "6" -> 6 [] ch = "7" -> 7
      [] ch = "8" -> 8 [] ch = "9" -> 9

RECURSIVE ParseDigits(_, _, _)
ParseDigits(chars, i, acc) ==
    IF i > Len(chars) THEN [ok |-> TRUE, val |-> acc]
    ELSE IF chars[i] \in Digits
         THEN ParseDigits(chars, i + 1, acc * 10 + DigitVal(chars[i]))
         ELSE [ok |-> FALSE]

float(amount) ==
    IF amount.type = "float" THEN [ok |-> TRUE, val |-> amount.val]
    ELSE LET s == amount.chars
             signed == Len(s) > 0 /\ s[1] \in {"+", "-"}
             first == IF signed THEN 2 ELSE 1
             body == IF first > Len(s) THEN [ok |-> FALSE]
                     ELSE ParseDigits(s, first, 0)
         IN IF ~body.ok THEN [ok |-> FALSE]
            ELSE IF signed /\ s[1] = "-"
                 THEN [ok |-> TRUE, val |-> 0 - body.val]
                 ELSE body

(***************************************************************************)
(* pd.to_datetime on a datetime.date and the .dt.year / .dt.month          *)
(* accessors: the date becomes a day count since 1970-01-01 and the        *)
(* calendar fields are decoded from that count (proleptic Gregorian).      *)
(***************************************************************************)
to_datetime(date) ==
    LET y == IF date.month <= 2 THEN date.year - 1 ELSE date.year
        era == y \div 400
        yoe == y - era * 400
        mp == IF date.month > 2 THEN date.month - 3 ELSE date.month + 9
        doy == (153 * mp + 2) \div 5 + date.day - 1
        doe == yoe * 365 + yoe \div 4 - yoe \div 100 + doy
    IN era * 146097 + doe - 719468

Civil(days) ==
    LET z == days + 719468
        era == z \div 146097
        doe == z - era * 146097
        yoe == (doe - doe \div 1460 + doe \div 36524 - doe \div 146096) \div 365
        doy == doe - (365 * yoe + yoe \div 4 - yoe \div 100)
        mp == (5 * doy + 2) \div 153
        d == doy - (153 * mp + 2) \div 5 + 1
        m == IF mp < 10 THEN mp + 3 ELSE mp - 9
        y == yoe + era * 400
    IN [year |-> IF m <= 2 THEN y + 1 ELSE y, month |-> m, day |-> d]

dt_year(ts) == Civil(ts).year

dt_month(ts) == Civil(ts).month

(***************************************************************************)
(* Initial state: session_state as FinanceTracker.__init__ first builds    *)
(* it.                                                                     *)
(***************************************************************************)
Init ==
    /\ transactions = <<>>
    /\ budgets = [cat \in CategorySet |-> 0]
    /\ last = [op |-> "__init__", args |-> <<>>, ret |-> TRUE]

(***************************************************************************)
(* FinanceTracker(): every later construction (one per script run) finds   *)
(* both keys in session_state and keeps them.                              *)
(***************************************************************************)
FinanceTracker ==
    /\ transactions' = transactions
    /\ budgets' = budgets
    /\ last' = [op |-> "__init__", args |-> <<>>, ret |-> TRUE]

(***************************************************************************)
(* Faulty variants of add_transaction: one stores the record before the    *)
(* amount is converted, one inserts at the head of the list.               *)
(***************************************************************************)
add_transaction_StoresBeforeConvert(date, amount, category, description) ==
    LET f == float(amount)
        args == [date |-> date, amount |-> amount, category |-> category,
                 description |-> description]
    IN /\ Len(transactions) < MaxLedger
       /\ transactions' = Append(transactions,
              [date |-> date, amount |-> IF f.ok THEN f.val ELSE 0,
               category |-> category, description |-> description])
       /\ budgets' = budgets
       /\ last' = [op |-> "add_transaction", args |-> args, ret |-> f.ok]

add_transaction_Prepends(date, amount, category, description) ==
    LET f == float(amount)
        args == [date |-> date, amount |-> amount, category |-> category,
                 description |-> description]
    IN IF f.ok
       THEN /\ Len(transactions) < MaxLedger
            /\ transactions' = <<[date |-> date, amount |-> f.val,
                                  category |-> category,
                                  description |-> description]>> \o transactions
            /\ budgets' = budgets
            /\ last' = [op |-> "add_transaction", args |-> args, ret |-> TRUE]
       ELSE /\ transactions' = transactions
            /\ budgets' = budgets
            /\ last' = [op |-> "add_transaction", args |-> args, ret |-> FALSE]

(***************************************************************************)
(* add_transaction(date, amount, category, description)                    *)
(***************************************************************************)
add_transaction(date, amount, category, description) ==
    LET f == float(amount)
        args == [date |-> date, amount |-> amount, category |-> category,
                 description |-> description]
    IN IF f.ok
       THEN /\ Len(transactions) < MaxLedger
            /\ transactions' = Append(transactions,
                   [date |-> date, amount |-> f.val, category |-> category,
                    description |-> description])
            /\ budgets' = budgets
            /\ last' = [op |-> "add_transaction", args |-> args, ret |-> TRUE]
       ELSE /\ transactions' = transactions
            /\ budgets' = budgets
            /\ last' = [op |-> "add_transaction", args |-> args, ret |-> FALSE]

(***************************************************************************)
(* Faulty variant of update_budget: adds the amount to the stored budget.  *)
(***************************************************************************)
update_budget_Accumulates(category, amount) ==
    LET f == float(amount)
        args == [category |-> category, amount |-> amount]
    IN IF f.ok
       THEN /\ budgets' = [k \in DOMAIN budgets \cup {category} |->
                              IF k = category
                              THEN (IF k \in DOMAIN budgets THEN budgets[k] ELSE 0)
                                   + f.val
                              ELSE budgets[k]]
            /\ transactions' = transactions
            /\ last' = [op |-> "update_budget", args |-> args, ret |-> TRUE]
       ELSE /\ budgets' = budgets
            /\ transactions' = transactions
            /\ last' = [op |-> "update_budget", args |-> args, ret |-> FALSE]

(***************************************************************************)
(* update_budget(category, amount)                                         *)
(***************************************************************************)
update_budget(category, amount) ==
    LET f == float(amount)
        args == [category |-> category, amount |-> amount]
    IN IF f.ok
       THEN /\ budgets' = [k \in DOMAIN budgets \cup {category} |->
                              IF k = category THEN f.val ELSE budgets[k]]
            /\ transactions' = transactions
            /\ last' = [op |-> "update_budget", args |-> args, ret |-> TRUE]
       ELSE /\ budgets' = budgets
            /\ transactions' = transactions
            /\ last' = [op |-> "update_budget", args |-> args, ret |-> FALSE]

(***************************************************************************)
(* get_monthly_spending(year, month): the frame of (category, amount)      *)
(* rows, one per category present among the masked rows, as a function     *)
(* from those categories to their sums; the empty frame is <<>>.           *)
(***************************************************************************)
\* Faulty variant of the mask: compares the month alone.
MonthlyMask_MonthOnly(txs, year, month) ==
    [i \in 1..Len(txs) |-> dt_month(to_datetime(txs[i].date)) = month]

MonthlyMask(txs, year, month) ==
    [i \in 1..Len(txs) |->
        LET ts == to_datetime(txs[i].date)
        IN dt_year(ts) = year /\ dt_month(ts) = month]

\* Faulty variant of the grouped sum: adds every masked row to every group.
RECURSIVE GroupSum_AllCategories(_, _, _, _)
GroupSum_AllCategories(txs, mask, category, n) ==
    IF n = 0 THEN 0
    ELSE GroupSum_AllCategories(txs, mask, category, n - 1)
         + (IF mask[n] THEN txs[n].amount ELSE 0)

RECURSIVE GroupSum(_, _, _, _)
GroupSum(txs, mask, category, n) ==
    IF n = 0 THEN 0
    ELSE GroupSum(txs, mask, category, n - 1)
         + (IF mask[n] /\ txs[n].category = category THEN txs[n].amount ELSE 0)

MonthlySpending(txs, year, month) ==
    IF txs = <<>> THEN <<>>
    ELSE LET mask == MonthlyMask(txs, year, month)
             keys == {txs[i].category : i \in {j \in 1..Len(txs) : mask[j]}}
         IN [k \in keys |-> GroupSum(txs, mask, k, Len(txs))]

get_monthly_spending(year, month) ==
    /\ last' = [op |-> "get_monthly_spending",
                args |-> [year |-> year, month |-> month],
                ret |-> MonthlySpending(transactions, year, month)]
    /\ UNCHANGED <<transactions, budgets>>

(***************************************************************************)
(* plot_monthly_comparison(year, month): the three parallel lists handed   *)
(* to the figure (categories, spending, budgets), built by the loop over   *)
(* self.categories.                                                        *)
(***************************************************************************)
CatSpending(monthly_spending, category) ==
    IF DOMAIN monthly_spending # {}
    THEN IF category \in DOMAIN monthly_spending
         THEN monthly_spending[category] ELSE 0
    ELSE 0

CatBudget(b, category) ==
    IF category \in DOMAIN b THEN b[category] ELSE 0

\* Faulty variant of the loop: a category without spending gets no bar.
RECURSIVE PlotLoop_SkipsUnspent(_, _, _)
PlotLoop_SkipsUnspent(monthly_spending, b, n) ==
    IF n = 0 THEN [categories |-> <<>>, spending |-> <<>>, budgets |-> <<>>]
    ELSE LET acc == PlotLoop_SkipsUnspent(monthly_spending, b, n - 1)
             category == categories[n]
         IN IF category \in DOMAIN monthly_spending
            THEN [categories |-> Append(acc.categories, category),
                  spending |-> Append(acc.spending, monthly_spending[category]),
                  budgets |-> Append(acc.budgets, CatBudget(b, category))]
            ELSE acc

RECURSIVE PlotLoop(_, _, _)
PlotLoop(monthly_spending, b, n) ==
    IF n = 0 THEN [categories |-> <<>>, spending |-> <<>>, budgets |-> <<>>]
    ELSE LET acc == PlotLoop(monthly_spending, b, n - 1)
             category == categories[n]
         IN [categories |-> Append(acc.categories, category),
             spending |-> Append(acc.spending,
                                 CatSpending(monthly_spending, category)),
             budgets |-> Append(acc.budgets, CatBudget(b, category))]

plot_monthly_comparison(year, month) ==
    /\ last' = [op |-> "plot_monthly_comparison",
                args |-> [year |-> year, month |-> month],
                ret |-> PlotLoop(MonthlySpending(transactions, year, month),
                                 budgets, Len(categories))]
    /\ UNCHANGED <<transactions, budgets>>

(***************************************************************************)
(* main(), "Recent Transactions": df.sort_values('date', ascending=False)  *)
(* on the column of datetime.date objects.  No kind is passed, so pandas   *)
(* sorts with its default kind='quicksort', which it documents as not      *)
(* stable: the order of rows of equal date is left to the sort, and every  *)
(* arrangement of the rows with non-increasing dates is a possible result. *)
(* Each listed row carries its DataFrame index (its position in the        *)
(* ledger).  With no transaction the table is not shown.                   *)
(***************************************************************************)
DateLess(a, b) ==
    \/ a.year < b.year
    \/ a.year = b.year /\ a.month < b.month
    \/ a.year = b.year /\ a.month = b.month /\ a.day < b.day

Orders(n) ==
    {p \in [1..n -> 1..n] : \A i, j \in 1..n : i # j => p[i] # p[j]}

\* Faulty variant of the sort: ascending dates.
SortValuesAscending(txs, p) ==
    \A i \in 1..(Len(txs) - 1) : ~DateLess(txs[p[i + 1]].date, txs[p[i]].date)

SortValuesDescending(txs, p) ==
    \A i \in 1..(Len(txs) - 1) : ~DateLess(txs[p[i]].date, txs[p[i + 1]].date)

list_transactions ==
    /\ IF transactions # <<>>
       THEN \E p \in Orders(Len(transactions)) :
               /\ SortValuesDescending(transactions, p)
               /\ last' = [op |-> "list_transactions", args |-> <<>>,
                           ret |-> [i \in 1..Len(transactions) |->
                                       [index |-> p[i], row |-> transactions[p[i]]]]]
       ELSE last' = [op |-> "list_transactions", args |-> <<>>, ret |-> <<>>]
    /\ UNCHANGED <<transactions, budgets>>

Next ==
    \/ FinanceTracker
    \/ \E date \in DateInputs, amount \in TxAmountInputs,
          category \in CategoryInputs, description \in DescriptionInputs :
          add_transaction(date, amount, category, description)
    \/ \E b \in BudgetInputs : update_budget(b[1], b[2])
    \/ \E period \in Periods : get_monthly_spending(period[1], period[2])
    \/ \E period \in Periods : plot_monthly_comparison(period[1], period[2])
    \/ list_transactions

Spec == Init /\ [][Next]_vars

(***************************************************************************)
(* Vocabulary of the claims, stated on the calendar fields of the stored   *)
(* dates and on the decimal reading of an amount.                          *)
(***************************************************************************)
InMonth(date, year, month) == date.year = year /\ date.month = month

RECURSIVE SumOver(_, _)
SumOver(txs, S) ==
    IF S = {} THEN 0
    ELSE LET i == CHOOSE x \in S : TRUE
         IN txs[i].amount + SumOver(txs, S \ {i})

Matching(txs, year, month, category) ==
    {i \in 1..Len(txs) :
        InMonth(txs[i].date, year, month) /\ txs[i].category = category}

Spent(txs, year, month, category) ==
    SumOver(txs, Matching(txs, year, month, category))

RECURSIVE SumSeq(_)
SumSeq(seq) == IF seq = <<>> THEN 0 ELSE Head(seq) + SumSeq(Tail(seq))

IsNumeral(chars) ==
    /\ Len(chars) >= 1
    /\ chars[1] \in Digits \cup {"+", "-"}
    /\ chars[1] \in {"+", "-"} => Len(chars) >= 2
    /\ \A i \in 2..Len(chars) : chars[i] \in Digits

Convertible(amount) == amount.type = "float" \/ IsNumeral(amount.chars)

RECURSIVE DecimalValue(_)
DecimalValue(chars) ==
    IF chars = <<>> THEN 0
    ELSE LET n == Len(chars)
         IN IF chars[n] \in {"+", "-"} THEN 0
            ELSE DecimalValue(SubSeq(chars, 1, n - 1)) * 10 + DigitVal(chars[n])

ValueOf(amount) ==
    IF amount.type = "float" THEN amount.val
    ELSE IF amount.chars[1] = "-" THEN 0 - DecimalValue(amount.chars)
         ELSE DecimalValue(amount.chars)

IsPrefix(s, t) == Len(s) <= Len(t) /\ SubSeq(t, 1, Len(s)) = s

Plotted == last.op = "plot_monthly_comparison"

(***************************************************************************)
(* C1: plot_monthly_comparison(year, month) reports, for every category of *)
(* the fixed list, the sum of the amounts of exactly the transactions       *)
(* dated in that year and month and filed under that category, next to     *)
(* the budget currently stored for the category (0 when none is stored).   *)
(***************************************************************************)
C1_ReconcileSums ==
    Plotted =>
        \A c \in CategorySet :
            \E i \in 1..Len(last.ret.categories) :
                /\ last.ret.categories[i] = c
                /\ last.ret.spending[i] =
                       Spent(transactions, last.args.year, last.args.month, c)
                /\ last.ret.budgets[i] =
                       (IF c \in DOMAIN budgets THEN budgets[c] ELSE 0)

\* Two Food transactions of 120 and 40 in 2024-03 and a Food budget of 200
\* are reported as (160, 200); every other category as (0, 0).
C1_Witness ==
    /\ Plotted
    /\ last.args = [year |-> 2024, month |-> 3]
    /\ Len(transactions) = 2
    /\ {transactions[1].amount, transactions[2].amount} = {120, 40}
    /\ \A i \in 1..2 : /\ transactions[i].category = "Food"
                       /\ transactions[i].date = Date(2024, 3, 31)
    /\ budgets["Food"] = 200
    /\ \A i \in 1..Len(categories) :
          IF categories[i] = "Food"
          THEN last.ret.spending[i] = 160 /\ last.ret.budgets[i] = 200
          ELSE last.ret.spending[i] = 0 /\ last.ret.budgets[i] = 0

(***************************************************************************)
(* C2: the spending figures reported by plot_monthly_comparison(year,      *)
(* month) add up to the sum of the amounts of all transactions dated in    *)
(* that year and month, whatever their category.                           *)
(***************************************************************************)
C2_Conservation ==
    Plotted =>
        SumSeq(last.ret.spending) =
            SumOver(transactions,
                    {i \in 1..Len(transactions) :
                        InMonth(transactions[i].date,
                                last.args.year, last.args.month)})

(***************************************************************************)
(* C3: add_transaction or update_budget called with an amount that cannot  *)
(* be converted to a number returns failure and leaves transactions and    *)
(* budgets exactly as they were.                                           *)
(***************************************************************************)
C3_InvalidAmountRejected ==
    [][(/\ last'.op \in {"add_transaction", "update_budget"}
        /\ ~Convertible(last'.args.amount))
       => (/\ last'.ret = FALSE
           /\ transactions' = transactions
           /\ budgets' = budgets)]_vars

\* add_transaction(..., "abc", ...) has just failed on a ledger that already
\* holds a transaction and a budget that was already set.
C3_Witness ==
    /\ last.op = "add_transaction"
    /\ last.args.amount = Str(<<"a", "b", "c">>)
    /\ last.ret = FALSE
    /\ Len(transactions) = 1
    /\ budgets["Food"] = 200

(***************************************************************************)
(* C4: no negative amount is ever stored: every transaction amount and     *)
(* every budget is >= 0.                                                   *)
(***************************************************************************)
C4_NonNegativeAmounts ==
    /\ \A i \in 1..Len(transactions) : transactions[i].amount >= 0
    /\ \A k \in DOMAIN budgets : budgets[k] >= 0

(***************************************************************************)
(* C5: a successful add_transaction appends exactly one transaction, with  *)
(* the four fields of the call, at the end of the list; every step of      *)
(* every operation keeps the earlier list as a prefix of the later one.    *)
(***************************************************************************)
C5_AppendOnly ==
    [][/\ IsPrefix(transactions, transactions')
       /\ (last'.op = "add_transaction" /\ last'.ret = TRUE)
            => transactions' =
                 Append(transactions,
                        [date |-> last'.args.date,
                         amount |-> ValueOf(last'.args.amount),
                         category |-> last'.args.category,
                         description |-> last'.args.description])
       /\ ~(last'.op = "add_transaction" /\ last'.ret = TRUE)
            => transactions' = transactions]_vars

\* A second transaction, different from the first, has just been added and
\* sits behind the first one.
C5_Witness ==
    /\ last.op = "add_transaction"
    /\ last.ret = TRUE
    /\ last.args.amount = Str(<<"4", "0">>)
    /\ Len(transactions) = 2
    /\ transactions[1] = [date |-> Date(2024, 4, 1), amount |-> 120,
                          category |-> "Pets", description |-> "Groceries"]
    /\ transactions[2] = [date |-> Date(2024, 3, 31), amount |-> 40,
                          category |-> "Food", description |-> "Groceries"]

(***************************************************************************)
(* C6: the result of plot_monthly_comparison has exactly one entry per     *)
(* category, in the order of the category list; a category without a       *)
(* matching transaction has spending 0, and with no transaction at all     *)
(* every entry has spending 0.                                             *)
(***************************************************************************)
C6_OneEntryPerCategory ==
    Plotted =>
        /\ last.ret.categories = categories
        /\ Len(last.ret.spending) = Len(categories)
        /\ Len(last.ret.budgets) = Len(categories)
        /\ \A i \in 1..Len(categories) :
              Matching(transactions, last.args.year, last.args.month,
                       categories[i]) = {}
                  => last.ret.spending[i] = 0
        /\ transactions = <<>> =>
              \A i \in 1..Len(categories) : last.ret.spending[i] = 0

\* A ledger whose only in-month transaction is Food: eight entries, Food
\* non-zero, the other seven zero.
C6_Witness ==
    /\ Plotted
    /\ transactions # <<>>
    /\ Len(last.ret.categories) = 8
    /\ \A i \in 1..8 : (last.ret.spending[i] # 0) <=> (categories[i] = "Food")

C9_CategoriesClosed ==
    /\ \A i \in 1..Len(transactions) : transactions[i].category \in CategorySet
    /\ DOMAIN budgets = CategorySet

(***************************************************************************)
(* C10: the listing is a permutation of the whole ledger ordered by date   *)
(* descending, and transactions of equal date keep their insertion order.  *)
(***************************************************************************)
ListedPermutation ==
    /\ Len(last.ret) = Len(transactions)
    /\ \A k \in 1..Len(transactions) :
          \E i \in 1..Len(last.ret) :
              /\ last.ret[i].index = k
              /\ last.ret[i].row = transactions[k]
              /\ \A j \in 1..Len(last.ret) : last.ret[j].index = k => j = i

ListedDescending ==
    \A i \in 1..(Len(last.ret) - 1) :
        ~DateLess(last.ret[i].row.date, last.ret[i + 1].row.date)

ListedStable ==
    \A i, j \in 1..Len(last.ret) :
        (i < j /\ last.ret[i].row.date = last.ret[j].row.date)
            => last.ret[i].index < last.ret[j].index

=============================================================================
